---- MODULE Spec2Model ----
(***************************************************************************)
(* Expense management REST API (FastAPI + SQLModel over SQLite).           *)
(*                                                                         *)
(* The state is the database (user, expense and category tables), the      *)
(* server clock, the bearer token each client currently holds, and the     *)
(* last request/response pair.  Every endpoint of main.py is an operator   *)
(* from (database, clock, request) to (response, new database); the action *)
(* of the same endpoint applies it and records the response.               *)
(*                                                                         *)
(* Optional values (Python None) are sequences: <<>> is None, <<v>> is v.  *)
(* Datetimes are minutes since the midnight that starts day 0; a calendar  *)
(* date is a day number.  The server starts at 10:00 on day 0.             *)
(***************************************************************************)
EXTENDS Integers, Sequences, FiniteSets, TLC

VARIABLES users, expenses, categories, clock, held, resp, pending

vars == <<users, expenses, categories, clock, held, resp, pending>>

----------------------------------------------------------------------------
(* Bounds of the model *)

MaxUsers == 2
MaxExpenses == 2
MaxExpenseId == 2
MaxCategories == 1
MaxClock == 630

(* Program constants *)

ACCESS_TOKEN_EXPIRE_MINUTES == 30

MinutesPerDay == 24 * 60
StartOfService == 10 * 60

None == <<>>
Some(v) == <<v>>
IsNone(o) == o = <<>>
Val(o) == o[1]

----------------------------------------------------------------------------
(* Inputs *)

Usernames == {"alice", "bob"}
Passwords == {"pw1", "pw2"}
\* The registrations clients make: each user has a password of their own.
Registrations == {<<"alice", "pw1">>, <<"bob", "pw2">>}
ClockSteps == {30}
Days == {0, 1, 2}
ExpenseIds == 1 .. MaxExpenseId
CategoryDescriptions == {"Food"}

\* Request bodies of POST /expenses and PUT /expenses/{id}; None is a key
\* the body does not have.  owner_id, id and category are fields ExpenseCreate
\* does not declare; a client may send them anyway.
Payload(amount, description, category_id, date, owner_id) ==
    [amount |-> amount, description |-> description,
     category_id |-> category_id, date |-> date,
     last_updated |-> None, recurrence_rule |-> None,
     recurrence_start_date |-> None, owner_id |-> owner_id, id |-> None,
     category |-> None]

\* The "Taxi" body dates the expense at noon of day 1 and carries a
\* last_updated of its own, the same instant.
ValidPayloads ==
    { Payload(10, "Lunch", Some(1), None, None),
      [Payload(20, "Taxi", None, Some(MinutesPerDay + 720), Some(1))
         EXCEPT !.last_updated = Some(MinutesPerDay + 720)] }

\* A body that breaks the field constraints, and a body that supplies
\* recurrence_start_date.
InvalidPayloads ==
    { Payload(0, "ab", Some(1), None, None),
      [Payload(10, "Lunch", Some(1), None, None)
         EXCEPT !.recurrence_rule = Some("daily"),
                !.recurrence_start_date = Some(MinutesPerDay)] }

Payloads == ValidPayloads \cup InvalidPayloads

\* Query strings of GET /expenses.
Query(start_date, end_date, category, skip, limit) ==
    [start_date |-> start_date, end_date |-> end_date, category |-> category,
     skip |-> skip, limit |-> limit]

Queries ==
    { Query(None, None, None, 0, 100),
      Query(Some(1), None, None, 0, 100),
      Query(Some(0), Some(1), None, 0, 100),
      Query(Some(0), Some(2), Some("Food"), 0, 100),
      Query(None, None, None, 1, 1),
      Query(None, None, None, 0, 0),
      Query(None, None, None, 0, -1),
      Query(None, None, None, 0, 1001) }

----------------------------------------------------------------------------
(* Bearer tokens.  A JWT is its claim set and whether its signature was    *)
(* made with SECRET_KEY; kind "none" is a request without an Authorization *)
(* header, kind "garbage" a bearer string that is not a JWT.               *)

Jwt(sub, exp, sig) == [kind |-> "jwt", sub |-> sub, exp |-> exp, sig |-> sig]
NoToken == [kind |-> "none", sub |-> None, exp |-> 0, sig |-> "none"]
GarbageToken == [kind |-> "garbage", sub |-> None, exp |-> 0, sig |-> "none"]

----------------------------------------------------------------------------
(* Tables.  A table is the sequence of its rows in rowid order, which is   *)
(* the order SQLite scans them in.  An INTEGER PRIMARY KEY column without  *)
(* AUTOINCREMENT gets the largest rowid in the table plus one.             *)

NextId(rows) == IF rows = <<>> THEN 1 ELSE rows[Len(rows)].id + 1

Ids(rows) == { rows[i].id : i \in 1 .. Len(rows) }

Rows(rows) == { rows[i] : i \in 1 .. Len(rows) }

\* session.get(Model, id): the row with that primary key, or None.
session_get(rows, id) ==
    IF \E i \in 1 .. Len(rows) : rows[i].id = id
    THEN Some(rows[CHOOSE i \in 1 .. Len(rows) : rows[i].id = id])
    ELSE None

\* Mutant: the delete is never committed.
session_delete_uncommitted(rows, id) == rows

\* session.delete(row); session.commit()
session_delete(rows, id) ==
    LET Keep(r) == r.id # id IN SelectSeq(rows, Keep)

\* session.add(row); session.commit() of a row already in the table
session_merge(rows, row) ==
    [i \in 1 .. Len(rows) |-> IF rows[i].id = row.id THEN row ELSE rows[i]]

----------------------------------------------------------------------------
(* Authentication functions *)

get_password_hash(password) == <<"bcrypt", password>>

\* Mutant: the plain password is compared with the hash itself.
verify_password_unhashed(plain_password, hashed_password) ==
    hashed_password = plain_password

verify_password(plain_password, hashed_password) ==
    hashed_password = <<"bcrypt", plain_password>>

\* select(User).where(User.username == username).first()
get_user(username) ==
    IF \E i \in 1 .. Len(users) : users[i].username = username
    THEN Some(users[CHOOSE i \in 1 .. Len(users) : users[i].username = username])
    ELSE None

\* False (None here) or the user
authenticate_user(username, password) ==
    LET user == get_user(username) IN
    IF IsNone(user) \/ ~verify_password(password, Val(user).hashed_password)
    THEN None
    ELSE user

\* "if expires_delta:" is false for None and for a timedelta of zero.
create_access_token(sub, expires_delta) ==
    LET expire == IF ~IsNone(expires_delta) /\ Val(expires_delta) # 0
                  THEN clock + Val(expires_delta)
                  ELSE clock + 15
    IN Jwt(Some(sub), expire, "ok")

\* Mutant: a token is still accepted at the instant it expires.
jwt_decode_grace(token) ==
    IF token.kind # "jwt" THEN None
    ELSE IF token.sig # "ok" THEN None
    ELSE IF token.exp < clock THEN None
    ELSE Some([sub |-> token.sub])

\* jwt.decode(token, SECRET_KEY, algorithms=[ALGORITHM]): the claims, or None
\* for every InvalidTokenError (not a JWT, bad signature, exp <= now).
jwt_decode(token) ==
    IF token.kind # "jwt" THEN None
    ELSE IF token.sig # "ok" THEN None
    ELSE IF token.exp <= clock THEN None
    ELSE Some([sub |-> token.sub])

AuthOk(user) == [ok |-> TRUE, status |-> 200, detail |-> "", user |-> Some(user)]
AuthFail(status, detail) ==
    [ok |-> FALSE, status |-> status, detail |-> detail, user |-> None]

\* Mutant: a request without an Authorization header is served as the first
\* stored user.
get_current_user_anonymous(token) ==
    IF token.kind = "none"
    THEN IF users = <<>> THEN AuthFail(401, "Not authenticated")
         ELSE AuthOk(users[1])
    ELSE LET payload == jwt_decode(token) IN
         IF IsNone(payload) THEN AuthFail(401, "Could not validate credentials")
         ELSE IF IsNone(Val(payload).sub)
         THEN AuthFail(401, "Could not validate credentials")
         ELSE LET user == get_user(Val(Val(payload).sub)) IN
              IF IsNone(user)
              THEN AuthFail(401, "Could not validate credentials")
              ELSE AuthOk(Val(user))

get_current_user(token) ==
    IF token.kind = "none" THEN AuthFail(401, "Not authenticated")
    ELSE LET payload == jwt_decode(token) IN
         IF IsNone(payload) THEN AuthFail(401, "Could not validate credentials")
         ELSE IF IsNone(Val(payload).sub)
         THEN AuthFail(401, "Could not validate credentials")
         ELSE LET user == get_user(Val(Val(payload).sub)) IN
              IF IsNone(user)
              THEN AuthFail(401, "Could not validate credentials")
              ELSE AuthOk(Val(user))

\* Mutant: the disabled flag is not looked at.
get_current_active_user_unchecked(token) == get_current_user(token)

get_current_active_user(token) ==
    LET current_user == get_current_user(token) IN
    IF ~current_user.ok THEN current_user
    ELSE IF Val(current_user.user).disabled THEN AuthFail(400, "Inactive user")
    ELSE current_user

----------------------------------------------------------------------------
(* Endpoints.  Each returns the response and the table it leaves behind.   *)

Result(status, detail, body, table) ==
    [status |-> status, detail |-> detail, body |-> body, table |-> table]

UserRead(user) ==
    [id |-> user.id, username |-> user.username, disabled |-> user.disabled]

\* Mutant: an unknown username is told apart from a wrong password.
login_for_access_token_enumerating(username, password) ==
    LET user == authenticate_user(username, password) IN
    IF IsNone(get_user(username))
    THEN Result(404, "User not found", <<>>, users)
    ELSE IF IsNone(user)
    THEN Result(401, "Incorrect username or password", <<>>, users)
    ELSE Result(200, "",
                <<[access_token |->
                     create_access_token(Val(user).username,
                                         Some(ACCESS_TOKEN_EXPIRE_MINUTES)),
                   token_type |-> "bearer"]>>,
                users)

\* POST /users/login
login_for_access_token(username, password) ==
    LET user == authenticate_user(username, password) IN
    IF IsNone(user)
    THEN Result(401, "Incorrect username or password", <<>>, users)
    ELSE Result(200, "",
                <<[access_token |->
                     create_access_token(Val(user).username,
                                         Some(ACCESS_TOKEN_EXPIRE_MINUTES)),
                   token_type |-> "bearer"]>>,
                users)

\* Mutant: the username is not looked up before the insert.
create_user_unchecked(username, password) ==
    LET db_user == [id |-> NextId(users), username |-> username,
                    hashed_password |-> get_password_hash(password),
                    disabled |-> FALSE]
    IN Result(200, "", <<UserRead(db_user)>>, Append(users, db_user))

\* POST /users/register
create_user(username, password) ==
    IF ~IsNone(get_user(username))
    THEN Result(400, "Username already registered", <<>>, users)
    ELSE LET db_user == [id |-> NextId(users), username |-> username,
                         hashed_password |-> get_password_hash(password),
                         disabled |-> FALSE]
         IN Result(200, "", <<UserRead(db_user)>>, Append(users, db_user))

\* create_user up to the existence check: the response when the request
\* ends there, None when it goes on to the insert.
create_user_check(username) ==
    IF ~IsNone(get_user(username))
    THEN Some(Result(400, "Username already registered", <<>>, users))
    ELSE None

\* create_user from the hash to the commit.  User.username has a unique
\* index: the INSERT of a username that is stored by now raises
\* IntegrityError, which nothing handles, and the request ends with 500.
create_user_insert(username, password) ==
    IF ~IsNone(get_user(username))
    THEN Result(500, "Internal Server Error", <<>>, users)
    ELSE LET db_user == [id |-> NextId(users), username |-> username,
                         hashed_password |-> get_password_hash(password),
                         disabled |-> FALSE]
         IN Result(200, "", <<UserRead(db_user)>>, Append(users, db_user))

\* GET /users/me
read_users_me(token) ==
    LET auth == get_current_active_user(token) IN
    IF ~auth.ok THEN Result(auth.status, auth.detail, <<>>, users)
    ELSE Result(200, "", <<UserRead(Val(auth.user))>>, users)

----------------------------------------------------------------------------
(* Expense endpoints *)

RecurrenceRules == {"daily", "weekly", "monthly", "yearly"}

\* ExpenseCreate.recurrence_start_date_required runs when the body has the
\* key recurrence_start_date (a field validator does not run on a default).
\* Its second argument is pydantic's ValidationInfo, which has no get():
\* values.get raises AttributeError, which is not a validation error and
\* ends the request with 500.
recurrence_start_date_required_raises(p) == ~IsNone(p.recurrence_start_date)

\* Mutant: amount has no gt=0 constraint.
ExpenseCreate_valid_any_amount(p) ==
    /\ Len(p.description) >= 3
    /\ Len(p.description) <= 255
    /\ (IsNone(p.category_id) \/ Val(p.category_id) > 0)
    /\ (IsNone(p.recurrence_rule) \/ Val(p.recurrence_rule) \in RecurrenceRules)

\* The field constraints of ExpenseBase and the recurrence_rule validator of
\* ExpenseCreate: whether FastAPI accepts the body (otherwise 422).
ExpenseCreate_valid(p) ==
    /\ p.amount > 0
    /\ Len(p.description) >= 3
    /\ Len(p.description) <= 255
    /\ (IsNone(p.category_id) \/ Val(p.category_id) > 0)
    /\ (IsNone(p.recurrence_rule) \/ Val(p.recurrence_rule) \in RecurrenceRules)

\* expense.model_dump(): the declared fields only, with the default_factory
\* of date and last_updated (the server clock) where the body gave none.
model_dump(p) ==
    [amount |-> p.amount,
     description |-> p.description,
     category_id |-> p.category_id,
     date |-> IF IsNone(p.date) THEN clock ELSE Val(p.date),
     last_updated |-> IF IsNone(p.last_updated) THEN clock ELSE Val(p.last_updated),
     recurrence_rule |-> p.recurrence_rule,
     recurrence_start_date |-> p.recurrence_start_date]

\* Expense(**dump, owner_id=..., id=...)
Expense(dump, id, owner_id) ==
    [id |-> id, owner_id |-> owner_id,
     amount |-> dump.amount,
     description |-> dump.description,
     category_id |-> dump.category_id,
     date |-> dump.date,
     last_updated |-> dump.last_updated,
     recurrence_rule |-> dump.recurrence_rule,
     recurrence_start_date |-> dump.recurrence_start_date]

\* Mutant: an owner_id in the body wins over the caller's id.
create_expense_body_owner(token, p) ==
    LET auth == get_current_active_user(token) IN
    IF ~auth.ok THEN Result(auth.status, auth.detail, <<>>, expenses)
    ELSE IF recurrence_start_date_required_raises(p)
    THEN Result(500, "Internal Server Error", <<>>, expenses)
    ELSE IF ~ExpenseCreate_valid(p)
    THEN Result(422, "validation error", <<>>, expenses)
    ELSE LET db_expense ==
                 Expense(model_dump(p), NextId(expenses),
                         IF IsNone(p.owner_id) THEN Val(auth.user).id
                         ELSE Val(p.owner_id))
         IN Result(200, "", <<db_expense>>, Append(expenses, db_expense))

\* POST /expenses
create_expense(token, p) ==
    LET auth == get_current_active_user(token) IN
    IF ~auth.ok THEN Result(auth.status, auth.detail, <<>>, expenses)
    ELSE IF recurrence_start_date_required_raises(p)
    THEN Result(500, "Internal Server Error", <<>>, expenses)
    ELSE IF ~ExpenseCreate_valid(p)
    THEN Result(422, "validation error", <<>>, expenses)
    ELSE LET db_expense ==
                 Expense(model_dump(p), NextId(expenses), Val(auth.user).id)
         IN Result(200, "", <<db_expense>>, Append(expenses, db_expense))

\* create_expense up to session.commit(): the checks made before the
\* handler runs and the row the INSERT stores are those of the whole
\* request; what the request returns is decided by session.refresh.
create_expense_insert(token, p) == create_expense(token, p)

\* create_expense from session.refresh to the return: the row is read
\* again by its primary key in a new transaction.  When it is gone by then
\* refresh raises InvalidRequestError and the request ends with 500;
\* otherwise the row stored under that id now is returned.
create_expense_refresh(expense_id) ==
    LET db_expense == session_get(expenses, expense_id) IN
    IF IsNone(db_expense)
    THEN Result(500, "Internal Server Error", <<>>, expenses)
    ELSE Result(200, "", db_expense, expenses)

\* SQLite stores a DateTime column as the text "YYYY-MM-DD HH:MM:SS.ffffff"
\* and SQLAlchemy binds a datetime.date compared with it as the text
\* "YYYY-MM-DD"; the comparison is SQLite's comparison of the two texts.  A
\* text is the sequence of its fields here: <<day, minute of the day>> for a
\* stored datetime, <<day>> for a date parameter.
DateTimeText(dt) == <<dt \div MinutesPerDay, dt % MinutesPerDay>>
DateText(day) == <<day>>

\* s <= t for two texts: the first differing field decides, and a proper
\* prefix sorts before the longer text.
TextLE(s, t) ==
    LET n == IF Len(s) < Len(t) THEN Len(s) ELSE Len(t)
        differ == { i \in 1 .. n : s[i] # t[i] }
    IN IF differ = {} THEN Len(s) <= Len(t)
       ELSE LET k == CHOOSE i \in differ : \A j \in differ : i <= j
            IN s[k] < t[k]

\* Expense.date >= start_date and Expense.date <= end_date
date_ge(dt, day) == TextLE(DateText(day), DateTimeText(dt))
date_le(dt, day) == TextLE(DateTimeText(dt), DateText(day))

\* .offset(skip).limit(limit); SQLite reads a negative LIMIT as no limit.
Paginate(rows, skip, limit) ==
    LET last == IF limit < 0 \/ skip + limit > Len(rows)
                THEN Len(rows) ELSE skip + limit
    IN SubSeq(rows, skip + 1, last)

\* GET /expenses
get_expenses(token, q) ==
    LET auth == get_current_active_user(token) IN
    IF ~auth.ok THEN Result(auth.status, auth.detail, <<>>, expenses)
    ELSE IF q.skip < 0 \/ q.limit > 1000
    THEN Result(422, "validation error", <<>>, expenses)
    ELSE IF ~IsNone(q.category) /\ Val(q.category) # ""
    THEN \* Expense has no attribute "category": AttributeError
         Result(500, "Internal Server Error", <<>>, expenses)
    ELSE LET Match(e) ==
                 /\ e.owner_id = Val(auth.user).id
                 /\ (IsNone(q.start_date)
                       \/ date_ge(e.date, Val(q.start_date)))
                 /\ (IsNone(q.end_date)
                       \/ date_le(e.date, Val(q.end_date)))
         IN Result(200, "",
                   Paginate(SelectSeq(expenses, Match), q.skip, q.limit),
                   expenses)

\* Mutant: the owner of the expense is not compared with the caller.
get_expense_any_owner(token, expense_id) ==
    LET auth == get_current_active_user(token) IN
    IF ~auth.ok THEN Result(auth.status, auth.detail, <<>>, expenses)
    ELSE LET expense == session_get(expenses, expense_id) IN
         IF IsNone(expense)
         THEN Result(404, "Expense not found", <<>>, expenses)
         ELSE Result(200, "", expense, expenses)

\* GET /expenses/{expense_id}
get_expense(token, expense_id) ==
    LET auth == get_current_active_user(token) IN
    IF ~auth.ok THEN Result(auth.status, auth.detail, <<>>, expenses)
    ELSE LET expense == session_get(expenses, expense_id) IN
         IF IsNone(expense) \/ Val(expense).owner_id # Val(auth.user).id
         THEN Result(404, "Expense not found", <<>>, expenses)
         ELSE Result(200, "", expense, expenses)

\* PUT /expenses/{expense_id}
update_expense(token, expense_id, p) ==
    LET auth == get_current_active_user(token) IN
    IF ~auth.ok THEN Result(auth.status, auth.detail, <<>>, expenses)
    ELSE IF recurrence_start_date_required_raises(p)
    THEN Result(500, "Internal Server Error", <<>>, expenses)
    ELSE IF ~ExpenseCreate_valid(p)
    THEN Result(422, "validation error", <<>>, expenses)
    ELSE LET db_expense == session_get(expenses, expense_id) IN
         IF IsNone(db_expense) \/ Val(db_expense).owner_id # Val(auth.user).id
         THEN Result(404, "Expense not found", <<>>, expenses)
         ELSE LET updated ==
                      [Expense(model_dump(p), Val(db_expense).id,
                               Val(db_expense).owner_id)
                         EXCEPT !.last_updated = clock]
              IN Result(200, "", <<updated>>, session_merge(expenses, updated))

\* DELETE /expenses/{expense_id}
delete_expense(token, expense_id) ==
    LET auth == get_current_active_user(token) IN
    IF ~auth.ok THEN Result(auth.status, auth.detail, <<>>, expenses)
    ELSE LET expense == session_get(expenses, expense_id) IN
         IF IsNone(expense) \/ Val(expense).owner_id # Val(auth.user).id
         THEN Result(404, "Expense not found", <<>>, expenses)
         ELSE Result(200, "", <<[message |-> "Expense deleted successfully"]>>,
                     session_delete(expenses, expense_id))

\* delete_expense up to the ownership check: the response when the request
\* ends there, None when it goes on to the delete.
delete_expense_lookup(token, expense_id) ==
    LET auth == get_current_active_user(token) IN
    IF ~auth.ok THEN Some(Result(auth.status, auth.detail, <<>>, expenses))
    ELSE LET expense == session_get(expenses, expense_id) IN
         IF IsNone(expense) \/ Val(expense).owner_id # Val(auth.user).id
         THEN Some(Result(404, "Expense not found", <<>>, expenses))
         ELSE None

\* delete_expense from session.delete to the return.  The flush sends
\* DELETE FROM expense WHERE id = ?; when the row is gone by then no row
\* matches, which SQLAlchemy only warns about, and the request still
\* returns the message.
delete_expense_commit(expense_id) ==
    Result(200, "", <<[message |-> "Expense deleted successfully"]>>,
           session_delete(expenses, expense_id))

\* POST /categories
create_category(token, description) ==
    LET auth == get_current_active_user(token) IN
    IF ~auth.ok THEN Result(auth.status, auth.detail, <<>>, categories)
    ELSE IF Len(description) < 3 \/ Len(description) > 255
    THEN Result(422, "validation error", <<>>, categories)
    ELSE LET db_category == [id |-> NextId(categories),
                             description |-> description]
         IN Result(200, "", <<db_category>>, Append(categories, db_category))

\* category_sum = category_sum + expense.amount over the rows
RECURSIVE SumAmounts(_)
SumAmounts(rows) ==
    IF rows = <<>> THEN 0 ELSE rows[1].amount + SumAmounts(Tail(rows))

\* str(category_id)
CategoryKey(category_id) ==
    IF IsNone(category_id) THEN "None" ELSE ToString(Val(category_id))

\* GET /reports/expenses: the dict of str(category_id) -> sum of amounts
get_expenses_report(token, start_date, end_date) ==
    LET auth == get_current_active_user(token) IN
    IF ~auth.ok THEN Result(auth.status, auth.detail, <<>>, expenses)
    ELSE LET Match(e) ==
                 /\ e.owner_id = Val(auth.user).id
                 /\ (IsNone(start_date) \/ date_ge(e.date, Val(start_date)))
                 /\ (IsNone(end_date) \/ date_le(e.date, Val(end_date)))
             found == SelectSeq(expenses, Match)
             cats == { found[i].category_id : i \in 1 .. Len(found) }
             PerCat(c) == LET InCat(e) == e.category_id = c
                          IN SelectSeq(found, InCat)
             report_dict == [k \in { CategoryKey(c) : c \in cats } |->
                               SumAmounts(PerCat(
                                 CHOOSE c \in cats : CategoryKey(c) = k))]
         IN Result(200, "", <<report_dict>>, expenses)

----------------------------------------------------------------------------
(* The state machine *)

\* The tokens login has issued that clients still hold (expired or not).
HeldTokens == { Val(held[u]) : u \in { v \in Usernames : ~IsNone(held[v]) } }

\* What the clients put in the Authorization header: nothing, or a token
\* login has issued.
Tokens == {NoToken} \cup HeldTokens

\* The last request and its response: the endpoint, the expense id of the
\* path (None when the path has none), the status and detail of the
\* response, and the number of records in its body.
Response(op, id, r) ==
    [op |-> op, id |-> id, status |-> r.status, detail |-> r.detail,
     count |-> Len(r.body)]

NoResponse ==
    [op |-> "none", id |-> None, status |-> 0, detail |-> "", count |-> 0]

\* The worker processes that serve requests on the one database.db, and the
\* request a worker has in hand when a request is followed statement by
\* statement: its endpoint and arguments, how far it has come ("idle",
\* "checked" after the lookup, "done" with status and detail), and whether
\* another worker was between lookup and commit of the same resource at the
\* same time.
Workers == {1, 2}

InFlight(op, phase, token, id, username, password, status, detail, overlapped) ==
    [op |-> op, phase |-> phase, token |-> token, id |-> id,
     username |-> username, password |-> password,
     status |-> status, detail |-> detail, overlapped |-> overlapped]

Idle == InFlight("none", "idle", NoToken, None, "", "", 0, "", FALSE)

\* database.db outlives the process: create_all adds the missing tables and
\* keeps the rows, so the server may start on an account an operator has
\* disabled (no endpoint sets User.disabled).
InitialUsers ==
    { <<>>,
      <<[id |-> 1, username |-> "alice",
         hashed_password |-> get_password_hash("pw1"), disabled |-> TRUE]>> }

Init ==
    /\ users \in InitialUsers
    /\ expenses = <<>>
    /\ categories = <<>>
    /\ clock = StartOfService
    /\ held = [u \in Usernames |-> None]
    /\ resp = NoResponse
    /\ pending = [w \in Workers |-> Idle]

Tick ==
    /\ \E d \in ClockSteps : clock + d <= MaxClock /\ clock' = clock + d
    /\ UNCHANGED <<users, expenses, categories, held, resp, pending>>

Register ==
    \E reg \in Registrations :
        LET username == reg[1]
            password == reg[2]
            r == create_user(username, password) IN
        /\ Len(r.table) <= MaxUsers
        /\ users' = r.table
        /\ resp' = Response("create_user", None, r)
        /\ UNCHANGED <<expenses, categories, clock, held, pending>>

Login ==
    \E username \in Usernames, password \in Passwords :
        LET r == login_for_access_token(username, password) IN
        /\ held' = IF r.status = 200
                   THEN [held EXCEPT ![username] = Some(r.body[1].access_token)]
                   ELSE held
        /\ resp' = Response("login_for_access_token", None, r)
        /\ UNCHANGED <<users, expenses, categories, clock, pending>>

ReadUsersMe ==
    \E token \in Tokens :
        LET r == read_users_me(token) IN
        /\ resp' = Response("read_users_me", None, r)
        /\ UNCHANGED <<users, expenses, categories, clock, held, pending>>

CreateExpense ==
    \E token \in Tokens, p \in Payloads :
        LET r == create_expense(token, p) IN
        /\ Len(r.table) <= MaxExpenses
        /\ \A i \in 1 .. Len(r.table) : r.table[i].id <= MaxExpenseId
        /\ expenses' = r.table
        /\ resp' = Response("create_expense", None, r)
        /\ UNCHANGED <<users, categories, clock, held, pending>>

GetExpenses ==
    \E token \in Tokens, q \in Queries :
        LET r == get_expenses(token, q) IN
        /\ resp' = Response("get_expenses", None, r)
        /\ UNCHANGED <<users, expenses, categories, clock, held, pending>>

GetExpense ==
    \E token \in Tokens, expense_id \in ExpenseIds :
        LET r == get_expense(token, expense_id) IN
        /\ resp' = Response("get_expense", Some(expense_id), r)
        /\ UNCHANGED <<users, expenses, categories, clock, held, pending>>

UpdateExpense ==
    \E token \in Tokens, expense_id \in ExpenseIds, p \in Payloads :
        LET r == update_expense(token, expense_id, p) IN
        /\ expenses' = r.table
        /\ resp' = Response("update_expense", Some(expense_id), r)
        /\ UNCHANGED <<users, categories, clock, held, pending>>

DeleteExpense ==
    \E token \in Tokens, expense_id \in ExpenseIds :
        LET r == delete_expense(token, expense_id) IN
        /\ expenses' = r.table
        /\ resp' = Response("delete_expense", Some(expense_id), r)
        /\ UNCHANGED <<users, categories, clock, held, pending>>

GetExpensesReport ==
    \E token \in Tokens, start_date, end_date \in {None, Some(1)} :
        LET r == get_expenses_report(token, start_date, end_date) IN
        /\ resp' = Response("get_expenses_report", None, r)
        /\ UNCHANGED <<users, expenses, categories, clock, held, pending>>

CreateCategory ==
    \E token \in Tokens, description \in CategoryDescriptions :
        LET r == create_category(token, description) IN
        /\ Len(r.table) <= MaxCategories
        /\ categories' = r.table
        /\ resp' = Response("create_category", None, r)
        /\ UNCHANGED <<users, expenses, clock, held, pending>>

Next ==
    \/ Tick
    \/ Register
    \/ Login
    \/ ReadUsersMe
    \/ CreateExpense
    \/ GetExpenses
    \/ GetExpense
    \/ UpdateExpense
    \/ DeleteExpense
    \/ CreateCategory
    \/ GetExpensesReport

Spec == Init /\ [][Next]_vars

----------------------------------------------------------------------------
(* Requests followed statement by statement.  Two worker processes share   *)
(* database.db; a DELETE /expenses/{id} and a POST /users/register are     *)
(* each two steps, the lookup and the write, a POST /expenses is the       *)
(* insert with its commit and then the refresh, and the steps of the two   *)
(* workers interleave.  The response of such a request is kept in pending. *)

\* The other workers that are between lookup and write of the same request.
Between(w, op, id, username) ==
    { v \in Workers \ {w} :
        /\ pending[v].op = op
        /\ pending[v].phase = "checked"
        /\ pending[v].id = id
        /\ pending[v].username = username }

\* Worker w has finished its part of the request with response r.
Done(w, r) ==
    [pending EXCEPT ![w].phase = "done",
                    ![w].status = r.status,
                    ![w].detail = r.detail]

\* Worker w goes on to the write; it and every worker in others overlap.
Checked(w, request, others) ==
    [v \in Workers |->
       IF v = w THEN [request EXCEPT !.overlapped = others # {}]
       ELSE IF v \in others THEN [pending[v] EXCEPT !.overlapped = TRUE]
       ELSE pending[v]]

DeleteLookup ==
    \E w \in Workers, token \in HeldTokens, expense_id \in ExpenseIds :
        LET r == delete_expense_lookup(token, expense_id)
            request == InFlight("delete_expense", "checked", token,
                                Some(expense_id), "", "", 0, "", FALSE)
        IN /\ pending[w].phase = "idle"
           /\ pending' =
                  IF IsNone(r)
                  THEN Checked(w, request,
                               Between(w, "delete_expense", Some(expense_id), ""))
                  ELSE [pending EXCEPT
                          ![w] = [request EXCEPT !.phase = "done",
                                                 !.status = Val(r).status,
                                                 !.detail = Val(r).detail]]
           /\ UNCHANGED <<users, expenses, categories, clock, held, resp>>

DeleteCommit ==
    \E w \in Workers :
        /\ pending[w].op = "delete_expense"
        /\ pending[w].phase = "checked"
        /\ LET r == delete_expense_commit(Val(pending[w].id)) IN
           /\ expenses' = r.table
           /\ pending' = Done(w, r)
        /\ UNCHANGED <<users, categories, clock, held, resp>>

RegisterCheck ==
    \E w \in Workers, reg \in Registrations :
        LET r == create_user_check(reg[1])
            request == InFlight("create_user", "checked", NoToken, None,
                                reg[1], reg[2], 0, "", FALSE)
        IN /\ pending[w].phase = "idle"
           /\ pending' =
                  IF IsNone(r)
                  THEN Checked(w, request,
                               Between(w, "create_user", None, reg[1]))
                  ELSE [pending EXCEPT
                          ![w] = [request EXCEPT !.phase = "done",
                                                 !.status = Val(r).status,
                                                 !.detail = Val(r).detail]]
           /\ UNCHANGED <<users, expenses, categories, clock, held, resp>>

RegisterInsert ==
    \E w \in Workers :
        /\ pending[w].op = "create_user"
        /\ pending[w].phase = "checked"
        /\ LET r == create_user_insert(pending[w].username,
                                       pending[w].password) IN
           /\ Len(r.table) <= MaxUsers
           /\ users' = r.table
           /\ pending' = Done(w, r)
        /\ UNCHANGED <<expenses, categories, clock, held, resp>>

CreateInsert ==
    \E w \in Workers, token \in Tokens, p \in Payloads :
        LET r == create_expense_insert(token, p)
            request == InFlight("create_expense", "committed", token, None,
                                "", "", 0, "", FALSE)
        IN /\ pending[w].phase = "idle"
           /\ Len(r.table) <= MaxExpenses
           /\ \A i \in 1 .. Len(r.table) : r.table[i].id <= MaxExpenseId
           /\ expenses' = r.table
           /\ pending' =
                  IF r.status = 200
                  THEN [pending EXCEPT
                          ![w] = [request EXCEPT !.id = Some(r.body[1].id)]]
                  ELSE [pending EXCEPT
                          ![w] = [request EXCEPT !.phase = "done",
                                                 !.status = r.status,
                                                 !.detail = r.detail]]
           /\ UNCHANGED <<users, categories, clock, held, resp>>

CreateRefresh ==
    \E w \in Workers :
        /\ pending[w].op = "create_expense"
        /\ pending[w].phase = "committed"
        /\ pending' = Done(w, create_expense_refresh(Val(pending[w].id)))
        /\ UNCHANGED <<users, expenses, categories, clock, held, resp>>

\* The response is sent and the worker takes the next request.
Respond ==
    \E w \in Workers :
        /\ pending[w].phase = "done"
        /\ pending' = [pending EXCEPT ![w] = Idle]
        /\ UNCHANGED <<users, expenses, categories, clock, held, resp>>

\* A registration that sets the scene and a login, which only reads, are
\* served whole.
NextRace ==
    \/ Register
    \/ Login
    \/ CreateInsert
    \/ CreateRefresh
    \/ Respond
    \/ DeleteLookup
    \/ DeleteCommit
    \/ RegisterCheck
    \/ RegisterInsert

SpecRace == Init /\ [][NextRace]_vars

----------------------------------------------------------------------------
(* Requests the properties quantify over: wider than the requests the      *)
(* actions send, since a property asks for the response to every one of    *)
(* them in every reachable state.                                          *)

AllPayloads ==
    { Payload(a, d, c, dt, o) :
        a \in {-10, 10}, d \in {"ab", "Dinner"}, c \in {None, Some(2)},
        dt \in {None, Some(MinutesPerDay + 720)},
        o \in {None, Some(1), Some(2)} }
      \cup { [p EXCEPT !.id = Some(1)] : p \in ValidPayloads }

AllQueries ==
    { Query(s, e, c, 0, l) :
        s \in {None} \cup { Some(d) : d \in Days },
        e \in {None} \cup { Some(d) : d \in Days },
        c \in {None, Some(""), Some("Food")},
        l \in {100, 1000} }

DateParams == {None} \cup { Some(d) : d \in Days }

ActiveUsers == { u \in Rows(users) : ~u.disabled }

\* The tokens login issued to user u that have not expired.
LiveTokens(u) ==
    { t \in HeldTokens : t.sub = Some(u.username) /\ t.exp > clock }

Day(dt) == dt \div MinutesPerDay

\* Every bearer-protected endpoint answers token t with this status and
\* detail, returns nothing and leaves its table as it is.
AllRejected(t, status, detail) ==
    /\ read_users_me(t) = Result(status, detail, <<>>, users)
    /\ \A p \in AllPayloads :
          create_expense(t, p) = Result(status, detail, <<>>, expenses)
    /\ \A q \in AllQueries :
          get_expenses(t, q) = Result(status, detail, <<>>, expenses)
    /\ \A id \in ExpenseIds :
          /\ get_expense(t, id) = Result(status, detail, <<>>, expenses)
          /\ delete_expense(t, id) = Result(status, detail, <<>>, expenses)
          /\ \A p \in AllPayloads :
                update_expense(t, id, p) = Result(status, detail, <<>>, expenses)
    /\ \A d \in CategoryDescriptions :
          create_category(t, d) = Result(status, detail, <<>>, categories)
    /\ \A sd \in DateParams, ed \in DateParams :
          get_expenses_report(t, sd, ed) = Result(status, detail, <<>>, expenses)

----------------------------------------------------------------------------
(* C1: for distinct registered users A and B and an expense owned by A, a  *)
(* GET, PUT or DELETE of that expense with B's valid token returns 404,    *)
(* never 200 or 403, and leaves the stored expense unchanged and present.  *)
(* (A PUT whose body fails validation is refused with 422 before the       *)
(* lookup; the store is unchanged then too.)                               *)
C1_CrossOwnerIsNotFound ==
    \A b \in ActiveUsers : \A t \in LiveTokens(b) : \A e \in Rows(expenses) :
        e.owner_id # b.id =>
            /\ get_expense(t, e.id) =
                   Result(404, "Expense not found", <<>>, expenses)
            /\ delete_expense(t, e.id) =
                   Result(404, "Expense not found", <<>>, expenses)
            /\ \A p \in AllPayloads :
                  LET r == update_expense(t, e.id, p) IN
                  /\ r.table = expenses
                  /\ r.body = <<>>
                  /\ r.status = IF p.amount > 0 /\ p.description # "ab"
                                THEN 404 ELSE 422

C1_Witness ==
    /\ resp.op \in {"get_expense", "update_expense", "delete_expense"}
    /\ resp.status = 404
    /\ Val(resp.id) \in Ids(expenses)

\* The owner recorded for each stored id.
OwnerMap(rows) == { <<r.id, r.owner_id>> : r \in Rows(rows) }

(* C2: create sets owner_id from the authenticated caller whatever         *)
(* owner_id or id the body carries, and no update or delete, by anyone     *)
(* with any payload, changes the id or owner_id of a stored expense.       *)
C2_OwnerIsTheCreator ==
    /\ \A u \in ActiveUsers : \A t \in LiveTokens(u) : \A p \in AllPayloads :
          LET r == create_expense(t, p) IN
          r.status = 200 =>
              /\ r.body[1].owner_id = u.id
              /\ r.body[1].id \notin Ids(expenses)
              /\ r.table = Append(expenses, r.body[1])
    /\ \A t \in Tokens : \A id \in ExpenseIds :
          /\ \A p \in AllPayloads :
                LET r == update_expense(t, id, p) IN
                /\ OwnerMap(r.table) = OwnerMap(expenses)
                /\ r.status = 200 =>
                       /\ r.body[1].id = id
                       /\ <<id, r.body[1].owner_id>> \in OwnerMap(expenses)
          /\ OwnerMap(delete_expense(t, id).table) \subseteq OwnerMap(expenses)
    /\ \A e \in Rows(expenses) : e.owner_id \in Ids(users)

\* The "Taxi" body names owner_id 1; the stored row belongs to the caller.
C2_Witness ==
    /\ resp.op \in {"create_expense", "update_expense"}
    /\ resp.status = 200
    /\ \E e \in Rows(expenses) : e.description = "Taxi" /\ e.owner_id # 1

(* C3: once a username is registered, every later registration of the same *)
(* username, whatever the password, fails with 400 "Username already       *)
(* registered" and leaves the user table unchanged; no two stored users    *)
(* share a username.                                                       *)
C3_DuplicateUsernameRejected ==
    /\ \A u \in Rows(users) : \A pw \in Passwords :
          create_user(u.username, pw) =
              Result(400, "Username already registered", <<>>, users)
    /\ \A i \in 1 .. Len(users) : \A j \in 1 .. Len(users) :
          users[i].username = users[j].username => i = j

C3_Witness ==
    /\ resp.op = "create_user"
    /\ resp.status = 400
    /\ resp.detail = "Username already registered"

(* C4: for every registered (username, password) pair a login with that    *)
(* pair succeeds with {access_token, token_type "bearer"}, and the token,  *)
(* presented before it expires, resolves to the user of that username.     *)
C4_LoginRoundTrip ==
    /\ \A u \in Rows(users) : \A pw \in Passwords :
          u.hashed_password = <<"bcrypt", pw>> =>
              LET r == login_for_access_token(u.username, pw) IN
              /\ r.status = 200
              /\ r.body[1].token_type = "bearer"
              /\ get_current_user(r.body[1].access_token) = AuthOk(u)
    /\ \A u \in Rows(users) : \A t \in LiveTokens(u) :
          /\ get_current_user(t) = AuthOk(u)
          /\ ~u.disabled =>
                read_users_me(t) = Result(200, "", <<UserRead(u)>>, users)

C4_Witness ==
    /\ resp.op = "read_users_me"
    /\ resp.status = 200
    /\ \E u \in ActiveUsers : LiveTokens(u) # {}

(* C5: a token issued by login expires 30 minutes after it was issued, and *)
(* expiry is strict: presented at or after that instant it is refused by   *)
(* every authenticated endpoint with 401 "Could not validate credentials", *)
(* and nothing is read or written for the caller.                          *)
C5_ExpiryIsStrict ==
    /\ \A name \in Usernames : \A pw \in Passwords :
          LET r == login_for_access_token(name, pw) IN
          r.status = 200 =>
              r.body[1].access_token = Jwt(Some(name), clock + 30, "ok")
    /\ \A t \in HeldTokens :
          /\ t.exp <= clock + 30
          /\ t.exp <= clock =>
                AllRejected(t, 401, "Could not validate credentials")

\* A request sent at the very instant the token expires was refused (the
\* clients send no other token that is answered with this detail).
C5_Witness ==
    /\ resp.status = 401
    /\ resp.detail = "Could not validate credentials"
    /\ \E t \in HeldTokens : t.exp = clock

(* C6: login fails with the same outcome, 401 "Incorrect username or       *)
(* password" and no token, whether the username is not registered or the   *)
(* password is wrong.                                                      *)
C6_LoginFailuresIndistinguishable ==
    \A name \in Usernames \cup {"mallory"} : \A pw \in Passwords :
        LET known == { u \in Rows(users) : u.username = name }
            right == { u \in known : u.hashed_password = <<"bcrypt", pw>> }
        IN right = {} =>
               login_for_access_token(name, pw) =
                   Result(401, "Incorrect username or password", <<>>, users)

\* A login was refused in a state where both kinds of failure exist: a
\* registered user (wrong password) and a username nobody registered.
C6_Witness ==
    /\ resp.op = "login_for_access_token"
    /\ resp.status = 401
    /\ users # <<>>
    /\ \E name \in Usernames : \A u \in Rows(users) : u.username # name

(* C7: a disabled user fails every authenticated operation: each bearer-   *)
(* protected endpoint answers a valid, unexpired token of a disabled user  *)
(* with 400 "Inactive user" and changes no stored record.                  *)
C7_DisabledUsersRejected ==
    \A u \in Rows(users) : u.disabled =>
        \A t \in LiveTokens(u) : AllRejected(t, 400, "Inactive user")

C7_Witness ==
    /\ resp.status = 400
    /\ resp.detail = "Inactive user"
    /\ \E u \in Rows(users) : u.disabled /\ LiveTokens(u) # {}

(* C8: the first DELETE of the caller's own expense returns 200 with the   *)
(* message "Expense deleted successfully" and removes the record; as long  *)
(* as the id is absent, a DELETE or a GET of it returns 404, and no        *)
(* request other than a create brings an id back.                          *)
C8_DeleteThenNotFound ==
    \A u \in ActiveUsers : \A t \in LiveTokens(u) :
        /\ \A e \in Rows(expenses) :
              e.owner_id = u.id =>
                  LET r == delete_expense(t, e.id) IN
                  /\ r.status = 200
                  /\ r.body = <<[message |-> "Expense deleted successfully"]>>
                  /\ e.id \notin Ids(r.table)
                  /\ Rows(r.table) = Rows(expenses) \ {e}
        /\ \A id \in 1 .. MaxExpenseId + 1 :
              /\ id \notin Ids(expenses) =>
                    /\ delete_expense(t, id) =
                           Result(404, "Expense not found", <<>>, expenses)
                    /\ get_expense(t, id) =
                           Result(404, "Expense not found", <<>>, expenses)
              /\ Ids(delete_expense(t, id).table) \subseteq Ids(expenses)
              /\ \A p \in AllPayloads :
                    Ids(update_expense(t, id, p).table) \subseteq Ids(expenses)

\* Expense 1 existed (ids are handed out upwards and 2 is stored), was
\* deleted, and the last request, a DELETE of 1, was answered 404.
C8_Witness ==
    /\ resp.op = "delete_expense"
    /\ resp.status = 404
    /\ resp.id = Some(1)
    /\ Ids(expenses) = {2}

\* Expense e is in the category described as c.
InCategory(e, c) ==
    \E k \in Rows(categories) :
        /\ k.description = c
        /\ e.category_id = Some(k.id)

(* C9: GET /expenses returns only the caller's expenses, and start_date,   *)
(* end_date and category compose as a logical AND: with skip and limit     *)
(* wide enough the response is exactly the caller's expenses that satisfy  *)
(* every filter given.  An expense is in a category when its category_id   *)
(* is the id of the Category row of that description.                      *)
C9_FiltersComposeAsAnd ==
    \A u \in ActiveUsers : \A t \in LiveTokens(u) : \A q \in AllQueries :
        LET r == get_expenses(t, q)
            Wanted(e) ==
                /\ e.owner_id = u.id
                /\ (IsNone(q.start_date) \/ date_ge(e.date, Val(q.start_date)))
                /\ (IsNone(q.end_date) \/ date_le(e.date, Val(q.end_date)))
                /\ (IsNone(q.category) \/ InCategory(e, Val(q.category)))
        IN /\ r.status = 200
           /\ r.body = SelectSeq(expenses, Wanted)

(* C10: the date filters of GET /expenses are inclusive on both ends at    *)
(* calendar-date granularity: an expense dated at any time of day on the   *)
(* start_date day or on the end_date day is in the result.                 *)
C10_DateFiltersInclusive ==
    \A u \in ActiveUsers : \A t \in LiveTokens(u) : \A q \in AllQueries :
        IsNone(q.category) =>
            LET r == get_expenses(t, q) IN
            \A e \in Rows(expenses) :
                ( /\ e.owner_id = u.id
                  /\ (IsNone(q.start_date) \/ Day(e.date) >= Val(q.start_date))
                  /\ (IsNone(q.end_date) \/ Day(e.date) <= Val(q.end_date)) )
                => e \in Rows(r.body)

----------------------------------------------------------------------------
\* Query strings that page through the list, with and without a date filter
\* and a category filter.
PageQueries ==
    { Query(s, e, c, k, l) :
        s \in {None, Some(1)}, e \in {None, Some(2)},
        c \in {None, Some("Food")}, k \in 0 .. 3, l \in {-1, 0, 1, 2, 1000} }

\* The caller's expenses that pass the date filters of q, in table order.
Filtered(u, q) ==
    LET Match(e) ==
            /\ e.owner_id = u.id
            /\ (IsNone(q.start_date) \/ date_ge(e.date, Val(q.start_date)))
            /\ (IsNone(q.end_date) \/ date_le(e.date, Val(q.end_date)))
    IN SelectSeq(expenses, Match)

(* C11: pagination of GET /expenses comes after filtering, in insertion    *)
(* order: every list request with skip >= 0 and limit <= 1000 is answered  *)
(* with status 200, never an error; without a category filter the body is  *)
(* exactly the elements at positions skip .. skip+limit-1 (counted from 0) *)
(* of the caller's date-filtered expenses; and with any filter limit=0     *)
(* gives [], and so does a skip at or past the number of matches.  The     *)
(* table is kept in the order the rows were created in (ascending id).     *)
C11_PaginationAfterFiltering ==
    /\ \A i \in 1 .. Len(expenses) : \A j \in 1 .. Len(expenses) :
          i < j => expenses[i].id < expenses[j].id
    /\ \A u \in ActiveUsers : \A t \in LiveTokens(u) : \A q \in PageQueries :
          LET r == get_expenses(t, q)
              found == Filtered(u, q)
              rest == IF Len(found) > q.skip THEN Len(found) - q.skip ELSE 0
              least == IF q.limit < rest THEN q.limit ELSE rest
              n == IF least < 0 THEN 0 ELSE least
          IN /\ r.status = 200
             /\ r.table = expenses
             /\ IsNone(q.category) =>
                    /\ Len(r.body) = n
                    /\ \A i \in 1 .. n : r.body[i] = found[q.skip + i]
             /\ q.limit = 0 => r.body = <<>>
             /\ q.skip >= Len(found) => r.body = <<>>

\* Values of limit around the bounds of the parameter.
LimitQueries ==
    { Query(None, None, None, 0, l) : l \in {-1, 0, 1, 100, 1000, 1001} }

(* C12: limit is an upper bound on the page size of GET /expenses: a value *)
(* above 1000 is rejected, and for every limit the endpoint accepts the    *)
(* successful response has no more than limit records and no more than     *)
(* 1000.                                                                   *)
C12_LimitBoundsThePage ==
    \A u \in ActiveUsers : \A t \in LiveTokens(u) : \A q \in LimitQueries :
        LET r == get_expenses(t, q) IN
        /\ q.limit > 1000 => r.status = 422
        /\ r.status = 200 =>
              /\ Len(r.body) <= q.limit
              /\ Len(r.body) <= 1000

----------------------------------------------------------------------------
\* Descriptions of 255 and of 256 characters.
Description255 ==
    "xxxxxxxxxxxxxxxxxxxxxxxxxxxxxxxxxxxxxxxxxxxxxxxxxxxxxxxxxxxxxxxxxxxxxxxxxxxxxxxxxxxxxxxxxxxxxxxxxxxxxxxxxxxxxxxxxxxxxxxxxxxxxxxxxxxxxxxxxxxxxxxxxxxxxxxxxxxxxxxxxxxxxxxxxxxxxxxxxxxxxxxxxxxxxxxxxxxxxxxxxxxxxxxxxxxxxxxxxxxxxxxxxxxxxxxxxxxxxxxxxxxxxxxxxxxxxxx"
Description256 == Description255 \o "x"

\* Bodies on both sides of every bound of amount and description.
FieldPayloads ==
    { Payload(a, d, None, None, None) :
        a \in {-10, 0, 1, 10},
        d \in {"", "ab", "abc", Description255, Description256} }

(* C13: a create or update request with amount <= 0 or a description       *)
(* shorter than 3 or longer than 255 characters is rejected with 422 and   *)
(* the store is unchanged: nothing is created, and the expense an update   *)
(* names keeps every field.  A body inside the bounds is accepted by       *)
(* create.                                                                 *)
C13_InvalidBodyRejected ==
    \A u \in ActiveUsers : \A t \in LiveTokens(u) : \A p \in FieldPayloads :
        LET bad == \/ p.amount <= 0
                   \/ Len(p.description) < 3
                   \/ Len(p.description) > 255
        IN /\ bad =>
                /\ create_expense(t, p) =
                       Result(422, "validation error", <<>>, expenses)
                /\ \A id \in 1 .. MaxExpenseId + 1 :
                      update_expense(t, id, p) =
                          Result(422, "validation error", <<>>, expenses)
           /\ ~bad => create_expense(t, p).status = 200

\* An update of a stored expense by its owner, the only user logged in,
\* was answered 422.
C13_Witness ==
    /\ resp.op = "update_expense"
    /\ resp.status = 422
    /\ \E u \in ActiveUsers :
          /\ LiveTokens(u) # {}
          /\ \A v \in ActiveUsers \ {u} : LiveTokens(v) = {}
          /\ \E e \in Rows(expenses) :
                e.id = Val(resp.id) /\ e.owner_id = u.id

----------------------------------------------------------------------------
\* A category of 101 characters.
Category101 ==
    "ccccccccccccccccccccccccccccccccccccccccccccccccccccccccccccccccccccccccccccccccccccccccccccccccccccc"

\* Bodies that carry a free-text category.
CategoryPayloads ==
    { [Payload(20, "Valid description", None, None, None)
         EXCEPT !.category = Some(c)] :
        c \in {"Sh", "Food", Category101} }

(* C14: an expense carries a free-text category that is validated and      *)
(* stored: a create with a category shorter than 3 or longer than 100      *)
(* characters is rejected with 422 and stores nothing, and a create with a *)
(* valid category returns the category string that was supplied.           *)
C14_FreeTextCategory ==
    \A u \in ActiveUsers : \A t \in LiveTokens(u) : \A p \in CategoryPayloads :
        LET c == Val(p.category)
            r == create_expense(t, p)
        IN IF Len(c) < 3 \/ Len(c) > 100
           THEN r = Result(422, "validation error", <<>>, expenses)
           ELSE /\ r.status = 200
                /\ "category" \in DOMAIN r.body[1]
                /\ r.body[1].category = c

\* Bodies a PUT replaces an expense with: the bodies the clients send,
\* bodies with another category_id and with keys ExpenseCreate does not
\* declare, and bodies with a free-text category.
ReplacePayloads ==
    ValidPayloads
      \cup { Payload(30, "Updated Description", c, None, o) :
               c \in {None, Some(2)}, o \in {None, Some(2)} }
      \cup { [p EXCEPT !.id = Some(2), !.category = Some("Food")] :
               p \in ValidPayloads }

(* C15: a successful PUT /expenses/{id} by the owner replaces amount,      *)
(* description and category with the values of the body, returns the       *)
(* record with the same id and leaves every other row as it was; a GET of  *)
(* that id by the owner right after the PUT returns a record equal to the  *)
(* PUT response.  Stated for every step that is a successful PUT, for     *)
(* every body the owner could have sent in its place.                      *)
C15_UpdateReplaces ==
    [][ (resp'.op = "update_expense" /\ resp'.status = 200) =>
          \A u \in ActiveUsers : \A t \in LiveTokens(u) :
            \A e \in Rows(expenses) : \A p \in ReplacePayloads :
              (e.id = Val(resp'.id) /\ e.owner_id = u.id) =>
                  LET r == update_expense(t, e.id, p) IN
                  /\ r.status = 200
                  /\ Len(r.body) = 1
                  /\ r.body[1].id = e.id
                  /\ r.body[1].amount = p.amount
                  /\ r.body[1].description = p.description
                  /\ r.body[1].category_id = p.category_id
                  /\ ~IsNone(p.category) =>
                        /\ "category" \in DOMAIN r.body[1]
                        /\ r.body[1].category = Val(p.category)
                  /\ Len(r.table) = Len(expenses)
                  /\ \A i \in 1 .. Len(expenses) :
                        r.table[i] = IF expenses[i].id = e.id
                                     THEN r.body[1] ELSE expenses[i]
                  /\ (expenses' = r.table /\ UNCHANGED <<users, clock, held>>)
                        => get_expense(t, e.id)' =
                               Result(200, "", r.body, expenses')
      ]_vars

----------------------------------------------------------------------------
\* Bodies with and without a last_updated of their own, past and future.
LastUpdatedPayloads ==
    { [Payload(30, "Updated Description", None, None, None)
         EXCEPT !.last_updated = lu] :
        lu \in {None, Some(0), Some(MinutesPerDay + 720)} }

(* C16: last_updated is server-controlled on update: after a successful    *)
(* PUT the expense's last_updated is the server clock at the time of the   *)
(* update, whatever last_updated the body carried, and it is not earlier   *)
(* than the value the expense had before (strictly later when the clock    *)
(* has moved in between).                                                  *)
C16_LastUpdatedServerControlled ==
    \A u \in ActiveUsers : \A t \in LiveTokens(u) : \A e \in Rows(expenses) :
        e.owner_id = u.id =>
            \A p \in LastUpdatedPayloads :
                LET r == update_expense(t, e.id, p) IN
                /\ r.status = 200
                /\ r.body[1].last_updated = clock
                /\ e.last_updated <= r.body[1].last_updated

----------------------------------------------------------------------------
\* Tokens that name nobody: no Authorization header, a string that is not a
\* JWT, a JWT signed with another key (whoever its subject is), a JWT
\* without a subject, and a well-signed JWT whose subject is not a stored
\* user.
BadTokens ==
    {NoToken, GarbageToken, Jwt(None, clock + 30, "ok")}
      \cup { Jwt(Some(name), clock + 30, "forged") :
               name \in Usernames \cup {"mallory"} }
      \cup { Jwt(Some(name), clock + 30, "ok") :
               name \in { n \in Usernames \cup {"mallory"} :
                            \A u \in Rows(users) : u.username # n } }

\* The tables are unchanged and nothing is returned.
Unauthorized(r, table) ==
    /\ r.status = 401
    /\ r.detail \in {"Could not validate credentials", "Not authenticated"}
    /\ r.body = <<>>
    /\ r.table = table

(* C17: every request to POST/GET /expenses, GET/PUT/DELETE /expenses/{id} *)
(* or GET /users/me that carries no token, a malformed token, a token with *)
(* an invalid signature or a token whose subject is no stored user is      *)
(* answered 401 and leaves the user and expense tables unchanged.          *)
C17_BadTokensUnauthorized ==
    \A t \in BadTokens :
        /\ Unauthorized(read_users_me(t), users)
        /\ \A p \in Payloads :
              Unauthorized(create_expense(t, p), expenses)
        /\ \A q \in Queries :
              Unauthorized(get_expenses(t, q), expenses)
        /\ \A id \in ExpenseIds :
              /\ Unauthorized(get_expense(t, id), expenses)
              /\ Unauthorized(delete_expense(t, id), expenses)
              /\ \A p \in Payloads :
                    Unauthorized(update_expense(t, id, p), expenses)

\* A request for a stored expense without an Authorization header was
\* answered 401.
C17_Witness ==
    /\ resp.op \in {"get_expense", "update_expense", "delete_expense"}
    /\ resp.status = 401
    /\ resp.detail = "Not authenticated"
    /\ Val(resp.id) \in Ids(expenses)

----------------------------------------------------------------------------
\* The sum of f over the keys in S.
RECURSIVE SumOver(_, _)
SumOver(f, S) ==
    IF S = {} THEN 0
    ELSE LET k == CHOOSE x \in S : TRUE IN f[k] + SumOver(f, S \ {k})

(* C18: GET /reports/expenses returns, for the caller only, a map with one *)
(* key per distinct category_id (as a string) among the caller's expenses  *)
(* dated from the start_date day to the end_date day, each mapped to the   *)
(* sum of the amounts of exactly those expenses; the totals add up to the  *)
(* sum of all the caller's amounts in the range.                           *)
C18_ReportGroupsByCategory ==
    \A u \in ActiveUsers : \A t \in LiveTokens(u) :
      \A sd \in DateParams : \A ed \in DateParams :
        LET r == get_expenses_report(t, sd, ed)
            InRange(e) ==
                /\ e.owner_id = u.id
                /\ (IsNone(sd) \/ Day(e.date) >= Val(sd))
                /\ (IsNone(ed) \/ Day(e.date) <= Val(ed))
            mine == SelectSeq(expenses, InRange)
            SameCategory(c) == LET Same(e) == e.category_id = c
                               IN SelectSeq(mine, Same)
        IN /\ r.status = 200
           /\ r.table = expenses
           /\ DOMAIN r.body[1] =
                  { CategoryKey(e.category_id) : e \in Rows(mine) }
           /\ \A e \in Rows(mine) :
                  r.body[1][CategoryKey(e.category_id)] =
                      SumAmounts(SameCategory(e.category_id))
           /\ SumOver(r.body[1], DOMAIN r.body[1]) = SumAmounts(mine)

----------------------------------------------------------------------------
\* The rows of a table that user a owns, in table order.
OwnRows(rows, a) ==
    LET Own(e) == e.owner_id = a.id IN SelectSeq(rows, Own)

\* What the holder of token t is shown: the list (whole and paged), every
\* single expense and the report, as status, detail and body.
Shown(r) == <<r.status, r.detail, r.body>>

ViewQueries ==
    { Query(None, None, None, 0, 100),
      Query(None, None, None, 1, 1) }

View(t) ==
    <<[q \in ViewQueries |-> Shown(get_expenses(t, q))],
      [id \in ExpenseIds |-> Shown(get_expense(t, id))],
      Shown(get_expenses_report(t, None, None))>>

(* C19: requests of different identities do not interfere under any       *)
(* interleaving.  On every step a worker takes in a create or a delete     *)
(* made with user B's token, the expenses of every other user A are the    *)
(* same after the step as before, and so is what A obtains from            *)
(* GET /expenses, GET /expenses/{id} and GET /reports/expenses (a step    *)
(* that leaves the expense table alone shows A the same).  Stated under    *)
(* SpecRace.                                                               *)
C19_NoInterference ==
    [][ \A w \in Workers :
          ( /\ pending'[w] # pending[w]
            /\ pending'[w].op \in {"create_expense", "delete_expense"} )
          => \A a \in Rows(users) :
                 pending'[w].token.sub # Some(a.username)
                 => /\ OwnRows(expenses', a) = OwnRows(expenses, a)
                    /\ expenses' # expenses =>
                           \A ta \in LiveTokens(a) : View(ta)' = View(ta)
      ]_vars

----------------------------------------------------------------------------
\* Bodies with and without a recurrence rule and a start date.
RecurrencePayloads ==
    { [Payload(10, "Rent", None, None, None)
         EXCEPT !.recurrence_rule = rule, !.recurrence_start_date = start] :
        rule \in {None, Some("daily"), Some("yearly"), Some("hourly")},
        start \in {None, Some(MinutesPerDay)} }

(* C20: recurrence validation of create and update bodies: a               *)
(* recurrence_rule other than None, 'daily', 'weekly', 'monthly' or        *)
(* 'yearly' is rejected; a body with recurrence_rule set and               *)
(* recurrence_start_date absent is rejected as a validation error; a body  *)
(* with a valid rule and a start date is accepted and the supplied         *)
(* recurrence_start_date is stored unchanged.                              *)
C20_RecurrenceValidation ==
    \A u \in ActiveUsers : \A t \in LiveTokens(u) : \A p \in RecurrencePayloads :
        LET r == create_expense(t, p)
            known == IsNone(p.recurrence_rule)
                       \/ Val(p.recurrence_rule) \in RecurrenceRules
        IN /\ ~known => (r.status # 200 /\ r.table = expenses)
           /\ (~IsNone(p.recurrence_rule) /\ IsNone(p.recurrence_start_date))
                 => (r.status = 422 /\ r.table = expenses)
           /\ ( /\ known
                /\ ~IsNone(p.recurrence_rule)
                /\ ~IsNone(p.recurrence_start_date) )
                 => /\ r.status = 200
                    /\ r.body[1].recurrence_rule = p.recurrence_rule
                    /\ r.body[1].recurrence_start_date = p.recurrence_start_date

----------------------------------------------------------------------------
\* Bodies that supply no date.
UndatedPayloads ==
    { Payload(30, "Updated Description", c, None, None) :
        c \in {None, Some(2)} }

(* C21: a successful PUT /expenses/{id} whose body supplies no date leaves *)
(* the date of the expense as it was.                                      *)
C21_UpdateKeepsDate ==
    \A u \in ActiveUsers : \A t \in LiveTokens(u) : \A e \in Rows(expenses) :
        e.owner_id = u.id =>
            \A p \in UndatedPayloads :
                LET r == update_expense(t, e.id, p) IN
                r.status = 200 => r.body[1].date = e.date

----------------------------------------------------------------------------
\* Two workers have both answered requests of endpoint op that overlapped.
Raced(w1, w2, op) ==
    /\ w1 # w2
    /\ pending[w1].op = op /\ pending[w2].op = op
    /\ pending[w1].phase = "done" /\ pending[w2].phase = "done"
    /\ pending[w1].overlapped /\ pending[w2].overlapped

(* C22: when two DELETE requests for the same expense id, both from its    *)
(* owner, interleave, the lookup with the ownership check and the delete   *)
(* with its commit being separate steps, at most one of them returns 200   *)
(* "Expense deleted successfully".  Stated under SpecRace.                 *)
C22_OneDeleteSucceeds ==
    \A w1 \in Workers : \A w2 \in Workers :
        ( /\ Raced(w1, w2, "delete_expense")
          /\ pending[w1].id = pending[w2].id
          /\ pending[w1].token = pending[w2].token )
        => ~(pending[w1].status = 200 /\ pending[w2].status = 200)

(* C23: when two POST /users/register requests with the same username      *)
(* interleave, the existence check and the insert with its commit being    *)
(* separate steps, the store never holds two users with that username,     *)
(* exactly one request succeeds, and the other is answered 400 "Username   *)
(* already registered".  Stated under SpecRace.                            *)
C23_OneRegisterSucceeds ==
    /\ \A i \in 1 .. Len(users) : \A j \in 1 .. Len(users) :
          users[i].username = users[j].username => i = j
    /\ \A w1 \in Workers : \A w2 \in Workers :
          ( /\ Raced(w1, w2, "create_user")
            /\ pending[w1].username = pending[w2].username )
          => \/ /\ pending[w1].status = 200
                /\ pending[w2].status = 400
                /\ pending[w2].detail = "Username already registered"
             \/ /\ pending[w2].status = 200
                /\ pending[w1].status = 400
                /\ pending[w1].detail = "Username already registered"

====
